---- MODULE Spec2Model ----
(***************************************************************************)
(* TLV transport of pex.proto: the socket client (TLVClient) between two   *)
(* endpoints A (writer) and B (reader) of one stream connection, and the   *)
(* HTTP tunnel (TLVServerHTTP) registered in an HTTPListener's table.      *)
(***************************************************************************)
EXTENDS Integers, Sequences, FiniteSets, TLC

\* ---------------------------------------------------------------- bounds
MaxPayload == 2
MaxSends == 2
MaxSpin == 1
MaxEgress == 2
MaxPosts == 1

\* ------------------------------------------------------------- constants
\* size of the type field and of the length field asked from recv
FieldLen == 4

\* ------------------------------------------------------------ byte codec
Min(a, b) == IF a < b THEN a ELSE b

Take(s, n) == SubSeq(s, 1, Min(n, Len(s)))

Drop(s, n) == SubSeq(s, Min(n, Len(s)) + 1, Len(s))

\* struct.pack('!I', n)
BE32(n) ==
    << (n \div 16777216) % 256, (n \div 65536) % 256, (n \div 256) % 256, n % 256 >>

\* struct.unpack('!I', b)[0], b of four bytes
FromBE32(b) ==
    b[1] * 16777216 + b[2] * 65536 + b[3] * 256 + b[4]

PayloadOf(n) == [i \in 1..n |-> 16 + i]

\* the packets handed to send: an empty one and a full one, told apart by their type
PacketOf(n) == [type |-> n + 1, payload |-> PayloadOf(n)]

Packets == {PacketOf(0), PacketOf(MaxPayload)}

\* wire form of a packet: type(4, BE) || length(4, BE) || payload
Encode(p) == BE32(p.type) \o BE32(Len(p.payload)) \o p.payload

FormatError == [type |-> -1, payload |-> <<>>]

\* a packet parsed from a buffer holding one complete frame
Decode(buf) ==
    IF Len(buf) < 2 * FieldLen THEN FormatError
    ELSE LET n == FromBE32(SubSeq(buf, FieldLen + 1, 2 * FieldLen))
         IN  IF Len(buf) < 2 * FieldLen + n THEN FormatError
             ELSE [type |-> FromBE32(SubSeq(buf, 1, FieldLen)),
                   payload |-> SubSeq(buf, 2 * FieldLen + 1, 2 * FieldLen + n)]

\* ----------------------------------------------------------------- state
VARIABLES
    a_client,    \* A.client: "absent" (None), "open", "closed" (close() was called on it)
    a_blocking,  \* blocking mode of A's socket
    a_pc,        \* "idle" or "loop" (inside send_raw's while)
    a_op,        \* the call A runs or ran last
    a_out,       \* its outcome
    a_data,      \* send_raw's data: what is left to write
    a_written,   \* bytes the socket accepted during this call, in order
    a_spins,     \* iterations of send_raw's loop that wrote nothing
    a_partial,   \* a client.send of this call accepted less than it was given
    a_before,    \* A.client when the current call was made
    rbuf,        \* the stream: bytes A's socket accepted that B has not received yet
    b_client,    \* B.client
    b_blocking,  \* blocking mode of B's socket
    b_pc,        \* "idle", "type", "length", "value"
    b_op,        \* the call B runs or ran last
    b_block,     \* read's block argument
    b_out,       \* its outcome
    b_buffer,    \* read's buffer
    b_len,       \* read's length (remaining payload bytes)
    b_value,     \* read's value
    b_result,    \* bytes of the packet (read) or chunk (read_raw) returned
    b_spins,     \* iterations of read's payload loop that received nothing
    sentLog,     \* packets handed to A.send whose write loop was entered
    b_consumed,  \* number of stream bytes B's socket has handed out
    b_frame,     \* the frame of sentLog that started where the current read was called (0: none)
    b_full,      \* that frame had arrived whole when the current read was called
    b_afterNone, \* the call before the current read was a read that returned None
    methods,     \* HTTPListener.methods: path -> {'GET': handler, 'POST': handler}
    urlpath,     \* TLVServerHTTP.urlpath
    egress,      \* TLVServerHTTP.egress
    callback,    \* a callback was given to TLVServerHTTP
    cbLog,       \* the packets the callback was invoked with, in order
    h_op,        \* the last operation on the tunnel: a call or a request
    h_path,      \* its path: the request's path, or set_urlpath's argument
    h_status,    \* the status the request's response carries (0: none was written)
    h_body,      \* the body written to the request's response
    h_by,        \* whose handler wrote the response
    h_err,       \* the exception the operation ended with
    h_cb,        \* how often the callback was invoked during the operation
    h_wfail,     \* which writes of the request's response stream fail: "none", "body", "all"
    h_pending,   \* packets passed to send since the last GET answered with 200
    h_drained,   \* h_pending when the last GET arrived
    postLog,     \* packets POSTed to the bound path while a callback was registered
    h_arg,       \* the argument of the last set_urlpath that returned
    h_old,       \* urlpath when set_urlpath was last called (<<>>: not since construction or close)
    h_read,      \* bytes the operation read from the request body (rfile)
    h_copies,    \* response bodies that carried the packet queued first (2: two or more)
    a_werr,      \* a client.send of A raised a socket error other than would-block
    conn,        \* "up", or how a connection reset met B's read: "swallowed", "raised"
    g_pc,        \* a GET handled concurrently: "idle", "called" (handler looked up),
                 \* "status" (status line written), "written" (body written)
    g_path,      \* its request path
    u_pc,        \* set_urlpath run concurrently: "idle", "popped", "assigned"
    u_arg,       \* its argument
    l_table,     \* per HTTPListener constructed: the dict its self.methods refers to
    l_methods,   \* per dict: path -> the listener whose transport registered the path
    l_do,        \* the listener whose closures are PrimitiveHandler.do_GET / do_POST (0: none)
    l_req        \* the last request: the listener it arrived at and how it was dispatched

sockVars ==
    << a_client, a_blocking, a_pc, a_op, a_out, a_data, a_written, a_spins,
       a_partial, a_before, rbuf, b_client, b_blocking, b_pc, b_op, b_block, b_out, b_buffer, b_len, b_value,
       b_result, b_spins, sentLog, b_consumed, b_frame, b_full, b_afterNone >>

aVars ==
    << a_client, a_blocking, a_pc, a_op, a_out, a_data, a_written, a_spins, a_partial,
       a_before >>

bVars ==
    << b_client, b_blocking, b_pc, b_op, b_block, b_out, b_buffer, b_len, b_value,
       b_result, b_spins, b_consumed, b_frame, b_full, b_afterNone >>

httpVars ==
    << methods, urlpath, egress, callback, cbLog, h_op, h_path, h_status, h_body, h_by,
       h_err, h_cb, h_wfail, h_pending, h_drained, postLog, h_arg, h_old, h_read, h_copies >>

\* state of the scenarios with a failing peer, concurrent calls and two listeners
concVars == << g_pc, g_path, u_pc, u_arg >>

lVars == << l_table, l_methods, l_do, l_req >>

extVars == << a_werr, conn, concVars, lVars >>

vars == << sockVars, httpVars, extVars >>

ClientStates == {"absent", "open"}

NoRequest == [at |-> 0, path |-> << >>, via |-> 0, by |-> 0]

\* no peer failure, no concurrent call in progress, no listener constructed yet
ExtIdle ==
    /\ a_werr = FALSE
    /\ conn = "up"
    /\ g_pc = "idle"
    /\ g_path = << >>
    /\ u_pc = "idle"
    /\ u_arg = << >>
    /\ l_table = << >>
    /\ l_methods = << >>
    /\ l_do = 0
    /\ l_req = NoRequest

InitSock ==
    /\ ExtIdle
    /\ a_client \in ClientStates
    /\ a_blocking \in BOOLEAN
    /\ a_pc = "idle"
    /\ a_op = "none"
    /\ a_out = "none"
    /\ a_data = <<>>
    /\ a_written = <<>>
    /\ a_spins = 0
    /\ a_partial = FALSE
    /\ a_before = a_client
    /\ rbuf = <<>>
    /\ b_client \in ClientStates
    /\ b_blocking = TRUE
    /\ b_pc = "idle"
    /\ b_op = "none"
    /\ b_block = TRUE
    /\ b_out = "none"
    /\ b_buffer = <<>>
    /\ b_len = 0
    /\ b_value = <<>>
    /\ b_result = <<>>
    /\ b_spins = 0
    /\ sentLog = <<>>
    /\ b_consumed = 0
    /\ b_frame = 0
    /\ b_full = FALSE
    /\ b_afterNone = FALSE

\* the tunnel when only the socket client is exercised
HttpIdle ==
    /\ methods = << >>
    /\ urlpath = << >>
    /\ egress = << >>
    /\ callback = FALSE
    /\ cbLog = << >>
    /\ h_op = "none"
    /\ h_path = << >>
    /\ h_status = 0
    /\ h_body = << >>
    /\ h_by = "none"
    /\ h_err = "none"
    /\ h_cb = 0
    /\ h_wfail = "none"
    /\ h_pending = << >>
    /\ h_drained = << >>
    /\ postLog = << >>
    /\ h_arg = << >>
    /\ h_old = << >>
    /\ h_read = 0
    /\ h_copies = 0

Init == InitSock /\ HttpIdle

\* ------------------------------------------------------- TLVClient, writer
\* faulty variant of Rest: after a partial write the whole buffer is offered again
RestResend(data, sent) == IF sent = Len(data) THEN <<>> ELSE data

\* data = data[sent:]
Rest(data, sent) == SubSeq(data, sent + 1, Len(data))

\* send(packet) is send_raw(packet.buffer): the guard of send_raw, then its loop
SendCall(p) ==
    /\ a_pc = "idle"
    /\ Len(sentLog) < MaxSends
    /\ a_op' = "send"
    /\ a_before' = a_client
    /\ a_spins' = 0
    /\ a_partial' = FALSE
    /\ a_written' = <<>>
    /\ IF a_client = "absent"
       THEN /\ a_out' = "RuntimeError"
            /\ UNCHANGED << a_pc, a_data, sentLog >>
       ELSE /\ a_out' = "pending"
            /\ a_pc' = "loop"
            /\ a_data' = Encode(p)
            /\ sentLog' = Append(sentLog, p)
    /\ UNCHANGED << a_client, a_blocking, rbuf, bVars, httpVars, extVars >>

\* while data: false, the call returns
SendReturn ==
    /\ a_pc = "loop"
    /\ a_data = <<>>
    /\ a_pc' = "idle"
    /\ a_out' = "ok"
    /\ UNCHANGED << a_client, a_blocking, a_op, a_data, a_written, a_spins, a_partial,
                    a_before, rbuf, sentLog, bVars, httpVars, extVars >>

\* client.send(data) accepts the first sent bytes
SendAccept(sent) ==
    /\ a_pc = "loop"
    /\ a_data # <<>>
    /\ a_client = "open"
    /\ sent \in 1..Len(a_data)
    /\ rbuf' = rbuf \o SubSeq(a_data, 1, sent)
    /\ a_written' = a_written \o SubSeq(a_data, 1, sent)
    /\ a_data' = Rest(a_data, sent)
    /\ a_partial' = (a_partial \/ sent < Len(a_data))
    /\ UNCHANGED << a_client, a_blocking, a_pc, a_op, a_out, a_spins, a_before, sentLog,
                    bVars, httpVars, extVars >>

\* client.send(data) raises EAGAIN / EWOULDBLOCK on a non-blocking socket: continue
SendWouldBlock ==
    /\ a_pc = "loop"
    /\ a_data # <<>>
    /\ a_client = "open"
    /\ ~a_blocking
    /\ a_spins < MaxSpin
    /\ a_spins' = a_spins + 1
    /\ UNCHANGED << a_client, a_blocking, a_pc, a_op, a_out, a_data, a_written, a_partial,
                    a_before, rbuf, sentLog, bVars, httpVars, extVars >>

\* client.send(data) on a closed socket raises OSError(EBADF): the except clause
\* catches it, the errno test fails, and the loop goes on with data unchanged
SendBadFd ==
    /\ a_pc = "loop"
    /\ a_data # <<>>
    /\ a_client = "closed"
    /\ a_spins < MaxSpin
    /\ a_spins' = a_spins + 1
    /\ UNCHANGED << a_client, a_blocking, a_pc, a_op, a_out, a_data, a_written, a_partial,
                    a_before, rbuf, sentLog, bVars, httpVars, extVars >>

\* client.send(data) to a peer that closed its socket raises EPIPE / ECONNRESET
\* (the kernel may instead accept the bytes: SendAccept). The except clause
\* catches the error, the errno test fails, nothing is raised, and the loop goes
\* on with data unchanged
SendPeerGone ==
    /\ a_pc = "loop"
    /\ a_data # <<>>
    /\ a_client = "open"
    /\ b_client = "closed"
    /\ a_spins < MaxSpin
    /\ a_spins' = a_spins + 1
    /\ a_werr' = TRUE
    /\ UNCHANGED << a_client, a_blocking, a_pc, a_op, a_out, a_data, a_written, a_partial,
                    a_before, rbuf, sentLog, bVars, httpVars, conn, concVars, lVars >>

\* the writer's process ends inside send_raw's loop, with part of the buffer
\* written: the system closes its socket and the peer's stream ends there
SendKilled ==
    /\ a_pc = "loop"
    /\ a_data # <<>>
    /\ a_client = "open"
    /\ a_pc' = "idle"
    /\ a_out' = "killed"
    /\ a_client' = "closed"
    /\ UNCHANGED << a_blocking, a_op, a_data, a_written, a_spins, a_partial,
                    a_before, rbuf, sentLog, bVars, httpVars, extVars >>

\* close(): if self.client: self.client.close()
CloseEffect(client) == IF client = "absent" THEN "absent" ELSE "closed"

ACloseCall ==
    /\ a_pc = "idle"
    /\ a_op' = "close"
    /\ a_out' = "ok"
    /\ a_before' = a_client
    /\ a_client' = CloseEffect(a_client)
    /\ a_written' = <<>>
    /\ a_spins' = 0
    /\ a_partial' = FALSE
    /\ UNCHANGED << a_blocking, a_pc, a_data, rbuf, sentLog, bVars, httpVars, extVars >>

\* ---------------------------------------------------------------- stream
\* The connection is a local pair: a byte A's socket accepts can be received by B
\* at once. How much of a frame has arrived when B calls recv is decided by how
\* SendAccept and B's steps interleave, so B sees every fragmentation of the stream.
\* the writer closed its socket and everything it wrote was received
AtEOF == a_client = "closed" /\ rbuf = <<>>

\* recv has nothing to return yet
NoData == rbuf = <<>> /\ ~AtEOF

\* client.recv(size): up to size bytes of what has arrived (b'' at end of stream)
Recv(size) == Take(rbuf, size)

\* ------------------------------------------------------- TLVClient, reader
FrameLen(k) == Len(Encode(sentLog[k]))

RECURSIVE Boundary(_)
\* stream offset at which frame k of sentLog ends
Boundary(k) == IF k = 0 THEN 0 ELSE Boundary(k - 1) + FrameLen(k)

\* the frame of sentLog that starts at stream offset pos, 0 if none does
FrameAt(pos) ==
    IF \E k \in 1..Len(sentLog) : Boundary(k - 1) = pos
    THEN CHOOSE k \in 1..Len(sentLog) : Boundary(k - 1) = pos
    ELSE 0

ReadCall(block) ==
    /\ b_pc = "idle"
    /\ b_op' = "read"
    /\ b_block' = block
    /\ b_spins' = 0
    /\ b_afterNone' = (b_op = "read" /\ b_out = "None")
    /\ b_frame' = FrameAt(b_consumed)
    /\ b_full' = (FrameAt(b_consumed) > 0 /\ Len(rbuf) >= FrameLen(FrameAt(b_consumed)))
    /\ b_buffer' = <<>>
    /\ b_value' = <<>>
    /\ b_len' = 0
    /\ b_result' = <<>>
    /\ IF b_client = "absent"
       THEN /\ b_out' = "RuntimeError"
            /\ UNCHANGED << b_pc, b_blocking >>
       ELSE IF b_client = "closed"
       THEN \* setblocking on a closed socket raises OSError(EBADF)
            /\ b_out' = "OSError"
            /\ UNCHANGED << b_pc, b_blocking >>
       ELSE /\ b_out' = "pending"
            /\ b_blocking' = block
            /\ b_pc' = "type"
    /\ UNCHANGED << b_client, b_consumed, aVars, rbuf, sentLog, httpVars, extVars >>

\* faulty variant of ReadTypeWouldBlock: the would-block error is swallowed like any
\* other socket error and read goes on to the length field
ReadTypeFallThrough ==
    /\ b_pc = "type"
    /\ rbuf = <<>> /\ a_client # "closed"
    /\ ~b_blocking
    /\ b_pc' = "length"
    /\ b_blocking' = TRUE
    /\ UNCHANGED << b_client, b_op, b_block, b_out, b_buffer, b_len, b_value, b_result,
                    b_spins, b_consumed, b_frame, b_full, b_afterNone,
                    aVars, rbuf, sentLog, httpVars, extVars >>

\* buffer = read_raw(4) raises EAGAIN / EWOULDBLOCK: return (None)
ReadTypeWouldBlock ==
    /\ b_pc = "type"
    /\ NoData
    /\ ~b_blocking
    /\ b_pc' = "idle"
    /\ b_out' = "None"
    /\ UNCHANGED << b_client, b_blocking, b_op, b_block, b_buffer, b_len, b_value, b_result,
                    b_spins, b_consumed, b_frame, b_full, b_afterNone,
                    aVars, rbuf, sentLog, httpVars, extVars >>

\* buffer = read_raw(4); self.client.setblocking(True)
ReadType ==
    /\ b_pc = "type"
    /\ ~NoData
    /\ b_buffer' = Recv(FieldLen)
    /\ rbuf' = Drop(rbuf, FieldLen)
    /\ b_consumed' = b_consumed + Len(Recv(FieldLen))
    /\ b_blocking' = TRUE
    /\ b_pc' = "length"
    /\ UNCHANGED << b_client, b_op, b_block, b_out, b_len, b_value, b_result, b_spins,
                    b_frame, b_full, b_afterNone, aVars, sentLog, httpVars, extVars >>

\* length = read_raw(4); buffer += length; length = struct.unpack('!I', length)[0];
\* with length 0 the while loop is skipped and the packet is returned
ReadLength ==
    /\ b_pc = "length"
    /\ ~NoData
    /\ LET length == Recv(FieldLen)
       IN  /\ rbuf' = Drop(rbuf, FieldLen)
           /\ b_consumed' = b_consumed + Len(length)
           /\ IF Len(length) # FieldLen
              THEN \* struct.unpack raises struct.error
                   /\ b_out' = "StructError"
                   /\ b_pc' = "idle"
                   /\ b_buffer' = <<>>
                   /\ UNCHANGED << b_len, b_result >>
              ELSE IF FromBE32(length) > 0
              THEN /\ b_pc' = "value"
                   /\ b_buffer' = b_buffer \o length
                   /\ b_len' = FromBE32(length)
                   /\ UNCHANGED << b_out, b_result >>
              ELSE /\ b_pc' = "idle"
                   /\ b_out' = "packet"
                   /\ b_result' = b_buffer \o length
                   /\ b_buffer' = <<>>
                   /\ UNCHANGED b_len
    /\ UNCHANGED << b_client, b_blocking, b_op, b_block, b_value, b_spins,
                    b_frame, b_full, b_afterNone, aVars, sentLog, httpVars, extVars >>

\* one iteration of while length > 0: chunk = read_raw(length); value += chunk;
\* length -= len(chunk); after the last one buffer += value and the packet is returned
ReadValue ==
    /\ b_pc = "value"
    /\ rbuf # <<>>
    /\ LET chunk == Recv(b_len)
       IN  /\ rbuf' = Drop(rbuf, b_len)
           /\ b_consumed' = b_consumed + Len(chunk)
           /\ IF b_len - Len(chunk) > 0
              THEN /\ b_value' = b_value \o chunk
                   /\ b_len' = b_len - Len(chunk)
                   /\ UNCHANGED << b_pc, b_out, b_result, b_buffer >>
              ELSE /\ b_pc' = "idle"
                   /\ b_out' = "packet"
                   /\ b_result' = b_buffer \o (b_value \o chunk)
                   /\ b_buffer' = <<>>
                   /\ b_value' = <<>>
                   /\ b_len' = 0
    /\ UNCHANGED << b_client, b_blocking, b_op, b_block, b_spins,
                    b_frame, b_full, b_afterNone, aVars, sentLog, httpVars, extVars >>

\* at end of stream read_raw(length) returns b'': length is unchanged, the loop goes on
ReadValueEOF ==
    /\ b_pc = "value"
    /\ AtEOF
    /\ b_spins < MaxSpin
    /\ b_spins' = b_spins + 1
    /\ UNCHANGED << b_client, b_blocking, b_pc, b_op, b_block, b_out, b_buffer, b_len,
                    b_value, b_result, b_consumed, b_frame, b_full, b_afterNone,
                    aVars, rbuf, sentLog, httpVars, extVars >>

\* the peer aborts the connection and buffer = read_raw(4) raises
\* ConnectionResetError: the except clause catches it, the errno test fails,
\* nothing is raised, and read goes on with buffer = b'' to setblocking(True) and
\* the length field. What had arrived is discarded; later recv calls return b''
ReadTypeReset ==
    /\ b_pc = "type"
    /\ a_client = "open"
    /\ conn = "up"
    /\ conn' = "swallowed"
    /\ a_client' = "closed"
    /\ rbuf' = <<>>
    /\ b_blocking' = TRUE
    /\ b_pc' = "length"
    /\ UNCHANGED << b_client, b_op, b_block, b_out, b_buffer, b_len, b_value, b_result,
                    b_spins, b_consumed, b_frame, b_full, b_afterNone,
                    a_blocking, a_pc, a_op, a_out, a_data, a_written, a_spins, a_partial,
                    a_before, sentLog, httpVars, a_werr, concVars, lVars >>

\* the same failure of length = read_raw(4) or chunk = read_raw(length), which
\* are outside the try: the error is raised to the caller of read
ReadBodyReset ==
    /\ b_pc \in {"length", "value"}
    /\ a_client = "open"
    /\ conn = "up"
    /\ conn' = "raised"
    /\ a_client' = "closed"
    /\ rbuf' = <<>>
    /\ b_pc' = "idle"
    /\ b_out' = "ConnectionResetError"
    /\ b_buffer' = <<>>
    /\ b_value' = <<>>
    /\ b_len' = 0
    /\ UNCHANGED << b_client, b_blocking, b_op, b_block, b_result,
                    b_spins, b_consumed, b_frame, b_full, b_afterNone,
                    a_blocking, a_pc, a_op, a_out, a_data, a_written, a_spins, a_partial,
                    a_before, sentLog, httpVars, a_werr, concVars, lVars >>

RawSizes == {1, FieldLen}

\* read_raw(size) called by the user; a blocking recv returns once data has arrived
ReadRawCall(size) ==
    /\ b_pc = "idle"
    /\ b_op' = "read_raw"
    /\ b_afterNone' = FALSE
    /\ IF b_client = "absent"
       THEN /\ b_out' = "RuntimeError"
            /\ b_result' = <<>>
            /\ UNCHANGED << rbuf, b_consumed >>
       ELSE IF b_client = "closed"
       THEN /\ b_out' = "OSError"
            /\ b_result' = <<>>
            /\ UNCHANGED << rbuf, b_consumed >>
       ELSE IF NoData
       THEN /\ ~b_blocking
            /\ b_out' = "BlockingIOError"
            /\ b_result' = <<>>
            /\ UNCHANGED << rbuf, b_consumed >>
       ELSE /\ b_out' = "bytes"
            /\ b_result' = Recv(size)
            /\ rbuf' = Drop(rbuf, size)
            /\ b_consumed' = b_consumed + Len(Recv(size))
    /\ b_spins' = 0
    /\ UNCHANGED << b_client, b_blocking, b_pc, b_block, b_buffer, b_len, b_value,
                    b_frame, b_full, aVars, sentLog, httpVars, extVars >>

BCloseCall ==
    /\ b_pc = "idle"
    /\ b_op' = "close"
    /\ b_out' = "ok"
    /\ b_afterNone' = FALSE
    /\ b_client' = CloseEffect(b_client)
    /\ b_result' = <<>>
    /\ b_spins' = 0
    /\ UNCHANGED << b_blocking, b_pc, b_block, b_buffer, b_len, b_value,
                    b_consumed, b_frame, b_full, aVars, rbuf, sentLog, httpVars, extVars >>

\* ------------------------------------------------- HTTP tunnel: the table
\* paths are sequences of characters, so that '/' + urlpath is computed
Slash == << "/" >>

InitPaths == { Slash, << "/", "a" >> }

PathArgs == { << "a" >>, << "/", "o" >> }

OtherPath == << "/", "o" >>

ReqPaths == InitPaths \cup PathArgs \cup { Slash \o u : u \in PathArgs } \cup { OtherPath }

\* the closures get and post of this TLVServerHTTP
TlvHandlers == [GET |-> "tlv.get", POST |-> "tlv.post"]

\* handlers somebody else put in the listener's table
OtherHandlers == [GET |-> "other.get", POST |-> "other.post"]

\* dict.update({key: value})
Update(table, key, value) == (key :> value) @@ table

\* faulty variant of Pop: every key is removed
PopAll(table, key) == << >>

\* dict.pop(key), for a key that is present
Pop(table, key) == [k \in DOMAIN table \ {key} |-> table[k]]

RECURSIVE Flatten(_)
\* the encodings of a sequence of packets, one after the other
Flatten(ps) == IF ps = << >> THEN << >> ELSE Encode(Head(ps)) \o Flatten(Tail(ps))

\* self.server.methods holds this transport's two handlers under its urlpath
Registered == urlpath \in DOMAIN methods /\ methods[urlpath] = TlvHandlers

\* the listener with one foreign entry, then TLVServerHTTP(server, callback, urlpath)
InitHTTP ==
    /\ urlpath \in InitPaths
    /\ methods = Update(OtherPath :> OtherHandlers, urlpath, TlvHandlers)
    /\ egress = << >>
    /\ callback \in BOOLEAN
    /\ cbLog = << >>
    /\ h_op = "none"
    /\ h_path = << >>
    /\ h_status = 0
    /\ h_body = << >>
    /\ h_by = "none"
    /\ h_err = "none"
    /\ h_cb = 0
    /\ h_wfail = "none"
    /\ h_pending = << >>
    /\ h_drained = << >>
    /\ postLog = << >>
    /\ h_arg = << >>
    /\ h_old = << >>
    /\ h_read = 0
    /\ h_copies = 0

\* the socket client when only the tunnel is exercised
SockIdle ==
    /\ InitSock
    /\ a_client = "open"
    /\ a_blocking
    /\ b_client = "open"

\* -------------------------------------------------- TLVServerHTTP handlers
\* faulty variant of TlvGet: the buffer is not cleared after it was written
TlvGetKeepEgress(path) ==
    IF path # urlpath
    THEN /\ h_status' = 0
         /\ h_body' = << >>
         /\ h_by' = "none"
         /\ UNCHANGED egress
    ELSE /\ h_status' = 200
         /\ h_body' = egress
         /\ h_by' = "tlv"
         /\ UNCHANGED egress

\* get(request), the closure registered under 'GET'
TlvGet(path) ==
    IF path # urlpath
    THEN /\ h_status' = 0
         /\ h_body' = << >>
         /\ h_by' = "none"
         /\ UNCHANGED egress
    ELSE /\ h_status' = 200
         /\ h_body' = egress
         /\ h_by' = "tlv"
         /\ egress' = << >>

\* the response stream of a request: every write succeeds, the write of the body
\* raises (the peer went away after the status line and headers were written), or
\* every write raises
WriteFailures == {"none", "body", "all"}

\* request.send_status(code) on a stream whose every write raises: end_headers
\* writes the status line and headers and raises BrokenPipeError; nothing is written
StatusRaises ==
    /\ h_status' = 0
    /\ h_body' = << >>
    /\ h_by' = "none"
    /\ h_err' = "BrokenPipeError"

\* faulty variant of TlvPost: the response write is not guarded by try / except
TlvPostNoTry(path, data, wfail) ==
    IF path # urlpath
    THEN /\ h_status' = 0
         /\ h_body' = << >>
         /\ h_by' = "none"
         /\ h_err' = "none"
         /\ h_cb' = 0
         /\ h_read' = 0
         /\ UNCHANGED cbLog
    ELSE IF wfail = "all"
    THEN /\ h_read' = Len(data)
         /\ StatusRaises
         /\ h_cb' = 0
         /\ UNCHANGED cbLog
    ELSE /\ h_read' = Len(data)
         /\ h_status' = 200
         /\ h_body' = IF wfail = "body" THEN << >> ELSE egress
         /\ h_by' = "tlv"
         /\ h_err' = IF wfail = "body" THEN "BrokenPipeError" ELSE "none"
         /\ IF callback /\ wfail # "body"
            THEN /\ cbLog' = Append(cbLog, Decode(data))
                 /\ h_cb' = 1
            ELSE /\ h_cb' = 0
                 /\ UNCHANGED cbLog

\* faulty variant of TlvPost: the request path is not compared with urlpath
TlvPostNoPathTest(path, data, wfail) ==
    IF wfail = "all"
    THEN /\ h_read' = Len(data)
         /\ StatusRaises
         /\ h_cb' = 0
         /\ UNCHANGED cbLog
    ELSE /\ h_read' = Len(data)
         /\ h_status' = 200
         /\ h_body' = IF wfail = "body" THEN << >> ELSE egress
         /\ h_by' = "tlv"
         /\ h_err' = "none"
         /\ IF callback
            THEN /\ cbLog' = Append(cbLog, Decode(data))
                 /\ h_cb' = 1
            ELSE /\ h_cb' = 0
                 /\ UNCHANGED cbLog

\* post(request), the closure registered under 'POST': data is what
\* request.rfile.read(Content-Length) returns, wfail which writes of the response
\* stream raise. request.send_status(200) is outside the try: when it raises, post
\* ends there; the write of the body is inside it
TlvPost(path, data, wfail) ==
    IF path # urlpath
    THEN /\ h_status' = 0
         /\ h_body' = << >>
         /\ h_by' = "none"
         /\ h_err' = "none"
         /\ h_cb' = 0
         /\ h_read' = 0
         /\ UNCHANGED cbLog
    ELSE IF wfail = "all"
    THEN /\ h_read' = Len(data)
         /\ StatusRaises
         /\ h_cb' = 0
         /\ UNCHANGED cbLog
    ELSE /\ h_read' = Len(data)
         /\ h_status' = 200
         /\ h_body' = IF wfail = "body" THEN << >> ELSE egress
         /\ h_by' = "tlv"
         /\ h_err' = "none"
         /\ IF callback
            THEN /\ cbLog' = Append(cbLog, Decode(data))
                 /\ h_cb' = 1
            ELSE /\ h_cb' = 0
                 /\ UNCHANGED cbLog

\* a handler of the foreign entry: it answers on its own
OtherServe ==
    /\ h_status' = 200
    /\ h_body' = << >>
    /\ h_by' = "other"

\* request.send_status(404) of the listener
NotFound ==
    /\ h_status' = 404
    /\ h_body' = << >>
    /\ h_by' = "default"

\* ---------------------------------------------------- HTTPListener requests
\* h_copies once a response with this body was written by the handler named
\* (0: none, 1: one, 2: two or more)
Carried(by, body) ==
    IF by = "tlv" /\ body # << >> THEN (IF h_copies = 0 THEN 1 ELSE 2) ELSE h_copies

\* do_GET: the listener's get(request) and the handler it calls
HttpGet(path) ==
    /\ h_op' = "GET"
    /\ h_path' = path
    /\ h_err' = "none"
    /\ h_cb' = 0
    /\ h_wfail' = "none"
    /\ h_drained' = h_pending
    /\ IF path \notin DOMAIN methods
       THEN NotFound /\ UNCHANGED egress
       ELSE IF methods[path].GET = "tlv.get"
       THEN TlvGet(path)
       ELSE OtherServe /\ UNCHANGED egress
    /\ h_pending' = IF h_status' = 200 /\ h_by' = "tlv" THEN << >> ELSE h_pending
    /\ h_read' = 0
    /\ h_copies' = Carried(h_by', h_body')
    /\ UNCHANGED << methods, urlpath, callback, cbLog, postLog, h_arg, h_old, sockVars, extVars >>

\* do_POST: the listener's post(request) and the handler it calls; the request
\* carries the encoding of p as its body and its length as Content-Length. On a
\* stream whose every write raises, send_status raises in whichever handler runs
HttpPost(path, p, wfail) ==
    /\ Len(postLog) < MaxPosts
    /\ h_op' = "POST"
    /\ h_path' = path
    /\ h_wfail' = wfail
    /\ postLog' = IF Registered /\ path = urlpath /\ callback
                  THEN Append(postLog, p) ELSE postLog
    /\ IF path \notin DOMAIN methods
       THEN /\ IF wfail = "all" THEN StatusRaises ELSE NotFound /\ h_err' = "none"
            /\ h_cb' = 0 /\ h_read' = 0 /\ UNCHANGED cbLog
       ELSE IF methods[path].POST = "tlv.post"
       THEN TlvPost(path, Take(Encode(p), Len(Encode(p))), wfail)
       ELSE /\ IF wfail = "all" THEN StatusRaises ELSE OtherServe /\ h_err' = "none"
            /\ h_cb' = 0 /\ h_read' = 0 /\ UNCHANGED cbLog
    /\ h_copies' = Carried(h_by', h_body')
    /\ UNCHANGED << methods, urlpath, egress, callback, h_pending, h_drained, h_arg,
                    h_old, sockVars, extVars >>

\* ------------------------------------------------------ TLVServerHTTP calls
\* send(packet): self.egress += packet.buffer
HttpSend(p) ==
    /\ Len(h_pending) < MaxEgress
    /\ egress' = egress \o Encode(p)
    /\ h_pending' = Append(h_pending, p)
    /\ h_copies' = IF egress = << >> THEN 0 ELSE h_copies
    /\ h_read' = 0
    /\ h_op' = "send"
    /\ h_path' = << >>
    /\ h_status' = 0
    /\ h_body' = << >>
    /\ h_by' = "none"
    /\ h_err' = "none"
    /\ h_cb' = 0
    /\ h_wfail' = "none"
    /\ UNCHANGED << methods, urlpath, callback, cbLog, h_drained, postLog, h_arg, h_old,
                    sockVars, extVars >>

\* the path set_urlpath stores and registers
NewPath(arg) == Slash \o arg

\* the table set_urlpath leaves: the old key popped, the handlers under the new one
Rebound(table, old, new) == Update(Pop(table, old), new, TlvHandlers)

\* set_urlpath(urlpath); methods.pop raises KeyError when the old path is not a key
SetUrlpath(arg) ==
    /\ h_op' = "set_urlpath"
    /\ h_path' = arg
    /\ h_status' = 0
    /\ h_body' = << >>
    /\ h_by' = "none"
    /\ h_cb' = 0
    /\ h_wfail' = "none"
    /\ IF urlpath \notin DOMAIN methods
       THEN /\ h_err' = "KeyError"
            /\ UNCHANGED << methods, urlpath, h_arg, h_old >>
       ELSE /\ h_err' = "none"
            /\ h_arg' = arg
            /\ h_old' = urlpath
            /\ urlpath' = NewPath(arg)
            /\ methods' = Rebound(methods, urlpath, NewPath(arg))
    /\ h_read' = 0
    /\ UNCHANGED << egress, callback, cbLog, h_pending, h_drained, postLog, h_copies,
                    sockVars, extVars >>

\* close(): self.server.methods.pop(self.urlpath)
HttpClose ==
    /\ h_op' = "close"
    /\ h_path' = << >>
    /\ h_status' = 0
    /\ h_body' = << >>
    /\ h_by' = "none"
    /\ h_cb' = 0
    /\ h_wfail' = "none"
    /\ h_arg' = << >>
    /\ h_old' = << >>
    /\ IF urlpath \notin DOMAIN methods
       THEN /\ h_err' = "KeyError"
            /\ UNCHANGED methods
       ELSE /\ h_err' = "none"
            /\ methods' = Pop(methods, urlpath)
    /\ h_read' = 0
    /\ UNCHANGED << urlpath, egress, callback, cbLog, h_pending, h_drained, postLog, h_copies,
                    sockVars, extVars >>

\* ------------------------------------------- the handlers called directly
\* self.get and self.post are attributes of the transport: transport.get(request)
\* and transport.post(request) run the handlers on a request of any path

DirectGet(path) ==
    /\ h_op' = "get()"
    /\ h_path' = path
    /\ h_err' = "none"
    /\ h_cb' = 0
    /\ h_wfail' = "none"
    /\ h_read' = 0
    /\ h_drained' = h_pending
    /\ TlvGet(path)
    /\ h_pending' = IF h_status' = 200 THEN << >> ELSE h_pending
    /\ h_copies' = Carried(h_by', h_body')
    /\ UNCHANGED << methods, urlpath, callback, cbLog, postLog, h_arg, h_old, sockVars, extVars >>

DirectPost(path, p, wfail) ==
    /\ Len(postLog) < MaxPosts
    /\ h_op' = "post()"
    /\ h_path' = path
    /\ h_wfail' = wfail
    /\ postLog' = IF path = urlpath /\ callback THEN Append(postLog, p) ELSE postLog
    /\ TlvPost(path, Take(Encode(p), Len(Encode(p))), wfail)
    /\ h_copies' = Carried(h_by', h_body')
    /\ UNCHANGED << methods, urlpath, egress, callback, h_pending, h_drained, h_arg,
                    h_old, sockVars, extVars >>

\* ------------------------------------- the tunnel driven from two threads
\* The listener's thread handles requests while the thread that owns the
\* transport calls send and set_urlpath; no lock is taken anywhere, so the
\* statements of the handlers and of set_urlpath interleave.

\* do_GET, up to the call of the handler: method = self.methods.get(request.path),
\* send_status(404) or callback = method.get('GET')
GetLookup(path) ==
    /\ g_pc = "idle"
    /\ h_op' = "GET"
    /\ h_path' = path
    /\ IF path \notin DOMAIN methods
       THEN NotFound /\ UNCHANGED << g_pc, g_path >>
       ELSE IF methods[path].GET = "tlv.get"
       THEN /\ g_pc' = "called"
            /\ g_path' = path
            /\ h_status' = 0
            /\ h_body' = << >>
            /\ h_by' = "none"
       ELSE OtherServe /\ UNCHANGED << g_pc, g_path >>
    /\ UNCHANGED << methods, urlpath, egress, callback, cbLog, h_err, h_cb, h_wfail,
                    h_pending, h_drained, postLog, h_arg, h_old, h_read, h_copies,
                    u_pc, u_arg, a_werr, conn, lVars, sockVars >>

\* get(request): the path test (return on a mismatch) and request.send_status(200),
\* which writes the status line and the headers
GetStatus ==
    /\ g_pc = "called"
    /\ IF g_path # urlpath
       THEN /\ g_pc' = "idle"
            /\ UNCHANGED << h_status, h_by >>
       ELSE /\ g_pc' = "status"
            /\ h_status' = 200
            /\ h_by' = "tlv"
    /\ UNCHANGED << methods, urlpath, egress, callback, cbLog, h_op, h_path, h_body, h_err,
                    h_cb, h_wfail, h_pending, h_drained, postLog, h_arg, h_old, h_read,
                    h_copies, g_path, u_pc, u_arg, a_werr, conn, lVars, sockVars >>

\* get(request): request.wfile.write(self.egress), where self.egress is read
GetWrite ==
    /\ g_pc = "status"
    /\ g_pc' = "written"
    /\ h_body' = egress
    /\ h_drained' = h_pending
    /\ UNCHANGED << methods, urlpath, egress, callback, cbLog, h_op, h_path, h_status, h_by,
                    h_err, h_cb, h_wfail, h_pending, postLog, h_arg, h_old, h_read, h_copies,
                    g_path, u_pc, u_arg, a_werr, conn, lVars, sockVars >>

\* get(request): self.egress = b''
GetClear ==
    /\ g_pc = "written"
    /\ g_pc' = "idle"
    /\ egress' = << >>
    /\ h_pending' = SubSeq(h_pending, Len(h_drained) + 1, Len(h_pending))
    /\ UNCHANGED << methods, urlpath, callback, cbLog, h_op, h_path, h_status, h_body, h_by,
                    h_err, h_cb, h_wfail, h_drained, postLog, h_arg, h_old, h_read, h_copies,
                    g_path, u_pc, u_arg, a_werr, conn, lVars, sockVars >>

\* send(packet) on the other thread: self.egress += packet.buffer
ProducerSend(p) ==
    /\ Len(h_pending) < MaxEgress
    /\ egress' = egress \o Encode(p)
    /\ h_pending' = Append(h_pending, p)
    /\ UNCHANGED << methods, urlpath, callback, cbLog, h_op, h_path, h_status, h_body, h_by,
                    h_err, h_cb, h_wfail, h_drained, postLog, h_arg, h_old, h_read, h_copies,
                    concVars, a_werr, conn, lVars, sockVars >>

\* set_urlpath(urlpath): self.server.methods.pop(self.urlpath)
SetPop(arg) ==
    /\ u_pc = "idle"
    /\ urlpath \in DOMAIN methods
    /\ u_pc' = "popped"
    /\ u_arg' = arg
    /\ methods' = Pop(methods, urlpath)
    /\ UNCHANGED << urlpath, egress, callback, cbLog, h_op, h_path, h_status, h_body, h_by,
                    h_err, h_cb, h_wfail, h_pending, h_drained, postLog, h_arg, h_old,
                    h_read, h_copies, g_pc, g_path, a_werr, conn, lVars, sockVars >>

\* set_urlpath(urlpath): self.urlpath = '/' + urlpath
SetAssign ==
    /\ u_pc = "popped"
    /\ u_pc' = "assigned"
    /\ urlpath' = NewPath(u_arg)
    /\ UNCHANGED << methods, egress, callback, cbLog, h_op, h_path, h_status, h_body, h_by,
                    h_err, h_cb, h_wfail, h_pending, h_drained, postLog, h_arg, h_old,
                    h_read, h_copies, g_pc, g_path, u_arg, a_werr, conn, lVars, sockVars >>

\* set_urlpath(urlpath): self.server.methods.update({self.urlpath: {...}})
SetUpdate ==
    /\ u_pc = "assigned"
    /\ u_pc' = "idle"
    /\ methods' = Update(methods, urlpath, TlvHandlers)
    /\ UNCHANGED << urlpath, egress, callback, cbLog, h_op, h_path, h_status, h_body, h_by,
                    h_err, h_cb, h_wfail, h_pending, h_drained, postLog, h_arg, h_old,
                    h_read, h_copies, g_pc, g_path, u_arg, a_werr, conn, lVars, sockVars >>

NextHTTP ==
    \/ \E path \in ReqPaths : HttpGet(path)
    \/ \E path \in ReqPaths, p \in Packets, wfail \in WriteFailures : HttpPost(path, p, wfail)
    \/ \E p \in Packets : HttpSend(p)
    \/ \E arg \in PathArgs : SetUrlpath(arg)
    \/ HttpClose

InitTunnel == SockIdle /\ InitHTTP

SpecHTTP == InitTunnel /\ [][NextHTTP]_vars

\* ------------------------------------------------------- two HTTPListeners
Listeners == {1, 2}

\* the dict created once for the default value of __init__'s methods parameter
DefaultDict == 0

\* HTTPListener(host, port) or HTTPListener(host, port, methods={}) and listen():
\* self.methods is the dict passed or the default dict, self.handler is the class
\* PrimitiveHandler, whose do_GET and do_POST are set to this listener's closures
NewListener(i, explicit) ==
    /\ i \notin DOMAIN l_table
    /\ LET d == IF explicit THEN i ELSE DefaultDict
       IN  /\ l_table' = Update(l_table, i, d)
           /\ l_methods' = IF d \in DOMAIN l_methods THEN l_methods
                            ELSE Update(l_methods, d, << >>)
    /\ l_do' = i
    /\ UNCHANGED << l_req, a_werr, conn, concVars, sockVars, httpVars >>

\* TLVServerHTTP(server, urlpath=path) on listener i:
\* self.server.methods.update({self.urlpath: {'GET': get, 'POST': post}}), which
\* replaces an entry already under the path
Bind(i, path) ==
    /\ i \in DOMAIN l_table
    /\ l_methods' = [l_methods EXCEPT ![l_table[i]] = Update(@, path, i)]
    /\ UNCHANGED << l_table, l_do, l_req, a_werr, conn, concVars, sockVars, httpVars >>

\* a GET or POST arrives at the server of listener i: the handler instance calls
\* do_GET / do_POST of the class, the closure of listener l_do, which looks the
\* path up in that listener's self.methods
Request(i, path) ==
    /\ i \in DOMAIN l_table
    /\ LET table == l_methods[l_table[l_do]]
       IN  l_req' = [at |-> i, path |-> path, via |-> l_do,
                     by |-> IF path \in DOMAIN table THEN table[path] ELSE 0]
    /\ UNCHANGED << l_table, l_methods, l_do, a_werr, conn, concVars, sockVars, httpVars >>

NextListeners ==
    \/ \E i \in Listeners, explicit \in BOOLEAN : NewListener(i, explicit)
    \/ \E i \in Listeners, path \in InitPaths : Bind(i, path)
    \/ \E i \in Listeners, path \in InitPaths : Request(i, path)

InitListeners == SockIdle /\ HttpIdle

SpecListeners == InitListeners /\ [][NextListeners]_vars

NextHandlers ==
    \/ \E path \in ReqPaths : DirectGet(path)
    \/ \E path \in ReqPaths, p \in Packets, wfail \in WriteFailures : DirectPost(path, p, wfail)
    \/ \E p \in Packets : HttpSend(p)
    \/ \E arg \in PathArgs : SetUrlpath(arg)

SpecHandlers == InitTunnel /\ [][NextHandlers]_vars

NextThreads ==
    \/ \E path \in ReqPaths : GetLookup(path)
    \/ GetStatus
    \/ GetWrite
    \/ GetClear
    \/ \E p \in Packets : ProducerSend(p)
    \/ \E arg \in PathArgs : SetPop(arg)
    \/ SetAssign
    \/ SetUpdate

SpecThreads == InitTunnel /\ [][NextThreads]_vars

\* one endpoint on its own: send / send_raw and close on a socket that is absent,
\* open (blocking or not) or closed
NextWriter ==
    \/ \E p \in Packets : SendCall(p)
    \/ SendReturn
    \/ \E sent \in 1..(2 * FieldLen + MaxPayload) : SendAccept(sent)
    \/ SendWouldBlock
    \/ SendBadFd
    \/ ACloseCall

InitWriter == Init /\ b_client = "open"

SpecWriter == InitWriter /\ [][NextWriter]_vars

\* a connected pair: A sends packets, the stream delivers them in pieces, B reads
InitStream ==
    /\ Init
    /\ a_client = "open"
    /\ a_blocking
    /\ b_client = "open"

NextStream ==
    \/ \E p \in Packets : SendCall(p)
    \/ SendReturn
    \/ \E sent \in 1..(2 * FieldLen + MaxPayload) : SendAccept(sent)
    \/ \E block \in BOOLEAN : ReadCall(block)
    \/ ReadTypeWouldBlock
    \/ ReadType
    \/ ReadLength
    \/ ReadValue

SpecStream == InitStream /\ [][NextStream]_vars

\* both endpoints with every call
NextSock ==
    \/ \E p \in Packets : SendCall(p)
    \/ SendReturn
    \/ \E sent \in 1..(2 * FieldLen + MaxPayload) : SendAccept(sent)
    \/ SendWouldBlock
    \/ SendBadFd
    \/ ACloseCall
    \/ \E block \in BOOLEAN : ReadCall(block)
    \/ ReadTypeWouldBlock
    \/ ReadType
    \/ ReadLength
    \/ ReadValue
    \/ ReadValueEOF
    \/ \E size \in RawSizes : ReadRawCall(size)
    \/ BCloseCall

SpecSock == Init /\ [][NextSock]_vars

\* a writer whose peer may close its socket at any time
NextPeerGone ==
    \/ \E p \in Packets : SendCall(p)
    \/ SendReturn
    \/ \E sent \in 1..(2 * FieldLen + MaxPayload) : SendAccept(sent)
    \/ SendWouldBlock
    \/ SendPeerGone
    \/ BCloseCall

SpecPeerGone == InitWriter /\ [][NextPeerGone]_vars

\* a connected pair whose writing side may abort the connection
NextAbort ==
    \/ \E p \in Packets : SendCall(p)
    \/ SendReturn
    \/ \E sent \in 1..(2 * FieldLen + MaxPayload) : SendAccept(sent)
    \/ \E block \in BOOLEAN : ReadCall(block)
    \/ ReadTypeWouldBlock
    \/ ReadType
    \/ ReadLength
    \/ ReadValue
    \/ ReadTypeReset
    \/ ReadBodyReset

SpecAbort == InitStream /\ [][NextAbort]_vars

\* a connected pair whose writing side may end in the middle of a frame
NextCutOff ==
    \/ \E p \in Packets : SendCall(p)
    \/ SendReturn
    \/ \E sent \in 1..(2 * FieldLen + MaxPayload) : SendAccept(sent)
    \/ SendKilled
    \/ ACloseCall
    \/ \E block \in BOOLEAN : ReadCall(block)
    \/ ReadTypeWouldBlock
    \/ ReadType
    \/ ReadLength
    \/ ReadValue
    \/ ReadValueEOF

SpecCutOff == InitStream /\ [][NextCutOff]_vars

\* ================================================================ claims
\* the frame b_frame has been written to the stream whole
FrameWritten == b_frame > 0 /\ b_consumed + Len(rbuf) >= Boundary(b_frame)

\* a blocking read that was called where a frame starts has returned or raised
BlockingReadDone ==
    b_op = "read" /\ b_pc = "idle" /\ b_block /\ b_out # "None" /\ FrameWritten

\* C1: a packet that reaches read in pieces of any size, down to single bytes, is
\* returned whole: the bytes read returns are the packet's encoding (same type,
\* same length, same payload).
C1_FramingUnderFragmentation ==
    BlockingReadDone => (b_out = "packet" /\ b_result = Encode(sentLog[b_frame]))

\* C2: whatever pieces the socket accepts, and however often it would block,
\* send_raw writes the packet buffer once and in order: what was accepted plus
\* what is left is always the buffer, everything the socket accepted so far is
\* the encodings of the packets sent, and once all is accepted nothing is left,
\* so the loop ends and the call returns.
C2_PartialWriteResilience ==
    /\ (a_op = "send" /\ a_out \in {"pending", "ok"}) =>
            /\ a_written \o a_data = Encode(sentLog[Len(sentLog)])
            /\ rbuf = Flatten(SubSeq(sentLog, 1, Len(sentLog) - 1)) \o a_written
    /\ (a_op = "send" /\ a_out = "ok") =>
            /\ a_written = Encode(sentLog[Len(sentLog)])
            /\ rbuf = Flatten(sentLog)

\* a send returned after a partial write and a would-block
C2_Witness ==
    /\ a_op = "send" /\ a_out = "ok" /\ a_partial /\ a_spins > 0
    /\ Len(sentLog) = MaxSends
    /\ sentLog[MaxSends].payload # <<>>

\* C3: every blocking read on the peer returns the next packet sent, with the
\* same type and payload, and takes exactly 8 + length bytes from the stream.
C3_EndToEndInOrder ==
    BlockingReadDone =>
        /\ b_out = "packet"
        /\ Decode(b_result) = sentLog[b_frame]
        /\ b_consumed = Boundary(b_frame)

\* C4: a read(block=False) that finds no byte returns None and takes nothing from
\* the stream; the read after it, called when a whole frame has arrived, returns
\* that frame.
C4_NonBlockingProbe ==
    /\ [][(b_pc = "type" /\ ~b_block /\ NoData /\ b_pc' # "type") =>
            (b_out' = "None" /\ rbuf' = rbuf /\ b_consumed' = b_consumed)]_vars
    /\ []((b_op = "read" /\ b_pc = "idle" /\ b_afterNone /\ b_full) =>
            (b_out = "packet" /\ b_result = Encode(sentLog[b_frame])))

\* the read after a probe that returned None has returned the frame that arrived
C4_Witness ==
    /\ b_op = "read" /\ b_pc = "idle" /\ b_afterNone /\ b_full
    /\ b_out = "packet"
    /\ Decode(b_result).payload # <<>>

\* a GET for the path the transport is registered under was handled last
GetOnBoundPath == h_op = "GET" /\ Registered /\ h_path = urlpath

\* C5: a GET to the registered path is answered with 200 and the encodings of the
\* packets sent since the last such GET, in the order sent; the buffer is then
\* empty, so a GET that follows without a send gets an empty body.
C5_EgressIsolation ==
    /\ GetOnBoundPath =>
            /\ h_status = 200 /\ h_by = "tlv"
            /\ h_body = Flatten(h_drained)
            /\ egress = << >>
    /\ egress = Flatten(h_pending)

\* a GET drained two different packets
C5_Witness ==
    /\ GetOnBoundPath /\ h_status = 200
    /\ Len(h_drained) = 2 /\ h_drained[1] # h_drained[2]
    /\ h_body = Encode(h_drained[1]) \o Encode(h_drained[2])

\* a GET arrived after set_urlpath moved the registration
GetAfterRebind == h_op = "GET" /\ h_old # << >>

\* C6: after set_urlpath(newPath) a GET to the old path gets the 404 of the
\* listener and a GET to newPath, the path passed, is served by the transport.
C6_PathRebinding ==
    (GetAfterRebind /\ h_arg # h_old) =>
        /\ h_path = h_old => (h_by = "default" /\ h_status = 404)
        /\ h_path = h_arg => (h_by = "tlv" /\ h_status = 200)

\* a POST for the path the transport is registered under was handled last
PostOnBoundPath == h_op = "POST" /\ Registered /\ h_path = urlpath

\* C7: with a callback registered, the callback is invoked once for every POST to
\* the bound path, with the packet the body encodes, and for nothing else: the
\* packets it received are the packets posted, in order.
C7_InboundDelivery ==
    /\ cbLog = postLog
    /\ (PostOnBoundPath /\ callback) => h_cb = 1
    /\ h_op \in {"GET", "send", "set_urlpath", "close"} => h_cb = 0

\* C8: when the write of the POST response body fails, nothing is raised to the
\* listener and the callback is still invoked with the decoded packet.
C8_ResponseWriteSwallowed ==
    (PostOnBoundPath /\ h_wfail = "body") =>
        /\ h_err = "none"
        /\ callback => (h_cb = 1 /\ cbLog # << >> /\ cbLog[Len(cbLog)] = postLog[Len(postLog)])

\* a POST whose response body could not be written reached the callback
C8_Witness ==
    /\ PostOnBoundPath /\ h_wfail = "body" /\ callback
    /\ h_status = 200
    /\ h_cb = 1 /\ h_err = "none"
    /\ h_body = << >> /\ egress # << >>

\* C9: after close() every send, send_raw, read and read_raw raises the
\* transport's error ("Socket is not connected!") without touching the socket,
\* and so does read when the socket is absent.
C9_UseAfterClose ==
    /\ (a_op = "send" /\ a_client \in {"closed", "absent"}) =>
            (a_out = "RuntimeError" /\ a_spins = 0)
    /\ (b_op \in {"read", "read_raw"} /\ b_client \in {"closed", "absent"}) =>
            b_out = "RuntimeError"

\* C10: close() closes the socket, and raises the connection error when the
\* socket is absent or was closed before.
C10_CloseFailsWhenClosed ==
    a_op = "close" =>
        /\ a_before = "open" => (a_out = "ok" /\ a_client = "closed")
        /\ a_before \in {"absent", "closed"} => a_out = "RuntimeError"

\* C11: a client.send that fails with an error other than would-block is not
\* retried: the call ends there with an error raised to the caller, so the write
\* loop is never found running after such a failure.
C11_WriteFailureSurfaced ==
    a_werr => (a_pc = "idle" /\ a_out = "RuntimeError")

\* close() has removed the transport's registration
Unregistered == urlpath \notin DOMAIN methods

\* C12: close() removes the entry under the transport's path and changes nothing
\* else: every other entry of the table, the egress buffer and urlpath are as
\* before. Afterwards a GET or POST to that path never reaches the transport's
\* handlers and gets the listener's 404, and the listener still serves the other
\* registrations (on a response stream that can be written to).
C12_CloseFrame ==
    /\ [][(h_op' = "close" /\ h_err' = "none") =>
            /\ urlpath \notin DOMAIN methods'
            /\ DOMAIN methods' = DOMAIN methods \ {urlpath}
            /\ \A k \in DOMAIN methods' : methods'[k] = methods[k]
            /\ egress' = egress
            /\ urlpath' = urlpath]_vars
    /\ []((Unregistered /\ h_op \in {"GET", "POST"}) =>
            /\ h_path = urlpath =>
                    /\ h_by # "tlv" /\ h_cb = 0 /\ h_read = 0
                    /\ h_wfail # "all" => (h_status = 404 /\ h_by = "default")
            /\ (h_path = OtherPath /\ h_wfail # "all") =>
                    (h_status = 200 /\ h_by = "other"))

\* after close() a POST to the path got the 404 while packets were still queued
C12_Witness ==
    /\ Unregistered /\ h_op = "POST" /\ h_path = urlpath
    /\ h_status = 404 /\ h_by = "default"
    /\ egress # << >> /\ callback
    /\ methods = (OtherPath :> OtherHandlers)

\* C13: whenever read returns, with a packet or with None, the socket is in
\* blocking mode again.
C13_BlockingRestored ==
    (b_op = "read" /\ b_pc = "idle" /\ b_out \in {"packet", "None"}) => b_blocking

\* the paths under which the table holds the transport's two handlers
BoundPaths == { k \in DOMAIN methods : methods[k] = TlvHandlers }

\* C14: whenever the listener can look a path up, also while set_urlpath is
\* running on another thread, the transport's two handlers are in the table under
\* exactly one path.
C14_RebindAtomic ==
    Cardinality(BoundPaths) = 1

\* C15: when the read of the type field fails with a socket error other than
\* would-block, read ends there with that error raised to its caller: it is
\* never found going on to the length field, and it returns no packet.
C15_ReadFailureRaised ==
    conn = "swallowed" => (b_pc = "idle" /\ b_out = "ConnectionResetError")

\* C16: a GET or POST handler run on a request whose path is not the transport's
\* urlpath does nothing: it writes no status and no body, reads nothing from the
\* request body, does not invoke the callback, raises nothing and leaves the
\* egress buffer as it was.
C16_MismatchNoOp ==
    [][(h_op' \in {"get()", "post()"} /\ h_path' # urlpath) =>
            /\ h_status' = 0 /\ h_body' = << >> /\ h_by' = "none"
            /\ h_read' = 0
            /\ h_cb' = 0 /\ cbLog' = cbLog
            /\ h_err' = "none"
            /\ egress' = egress /\ urlpath' = urlpath /\ methods' = methods]_vars

\* the POST handler ran on another path while packets were queued and a callback
\* was registered
C16_Witness ==
    /\ h_op = "post()" /\ h_path # urlpath /\ h_path = OtherPath
    /\ h_status = 0 /\ h_read = 0 /\ h_cb = 0
    /\ callback /\ cbLog = << >>
    /\ Len(h_pending) = MaxEgress /\ egress = Flatten(h_pending)

\* C17: the bytes of a packet passed to send are carried by the body of one
\* response and never by a second one.
C17_ExactlyOnceEgress ==
    h_copies <= 1

\* C18: with send running on another thread than the GET handler, every packet
\* passed to send is either in the body of a GET response or still in the egress
\* buffer: the buffer is always the encodings of the packets not yet carried by
\* a response, and the body written is the encodings of those queued before it.
C18_NoEgressLoss ==
    /\ g_pc \in {"idle", "called", "status"} => egress = Flatten(h_pending)
    /\ g_pc = "written" => (h_body = Flatten(h_drained) /\ egress = Flatten(h_pending))

\* read has the header of frame b_frame in its buffer and is in the payload loop
InPayloadOfFrame ==
    /\ b_pc = "value" /\ b_frame > 0
    /\ b_buffer = Take(Encode(sentLog[b_frame]), 2 * FieldLen)

\* C19: at end of stream read does not loop: an iteration of the payload loop
\* that finds the stream ended with payload bytes outstanding ends the call (read
\* returns or raises), it does not leave read in the loop.
C19_ReadEndsAtEOF ==
    [][(InPayloadOfFrame /\ AtEOF /\ b_spins' # b_spins) => b_pc' = "idle"]_vars

\* C20: two listeners have separate tables, a request is dispatched through the
\* table of the listener it arrived at, and it is served only by a transport
\* bound to that listener (or gets the 404).
C20_DispatcherIsolation ==
    /\ \A i, j \in DOMAIN l_table : i # j => l_table[i] # l_table[j]
    /\ l_req.at # 0 => (l_req.via = l_req.at /\ l_req.by \in {0, l_req.at})

====
